---- MODULE Spec2Model ----
(***************************************************************************)
(* The three batch scripts of price-updater as one state machine:          *)
(*   "evm"    mark_not_spam_evm.py     (multi-chain spam clearing)         *)
(*   "solana" mark_not_spam_solana.py  (single-chain spam clearing)        *)
(*   "price"  run.py                   (BSC price update)                  *)
(* main() validates the configuration, process_csv() reads the rows one by *)
(* one, resolves each address (get_asset_info), applies the mutation       *)
(* (mark_asset_not_spam / update_asset_price), counts the outcome and      *)
(* sleeps.  The remote service and the CSV file are the environment: every *)
(* row and every HTTP response is chosen from a small set.                 *)
(***************************************************************************)
EXTENDS Integers, Sequences, FiniteSets, TLC

VARIABLES
    variant,                  \* which script runs
    DRY_RUN,                  \* module constant DRY_RUN of the script
    EVM_CHAINS,               \* module constant EVM_CHAINS (evm script)
    BEARER_TOKEN_ASSET_INFO,  \* os.getenv result; "" stands for unset/empty
    BEARER_TOKEN_PRICING,
    csv_exists,               \* os.path.exists(CSV_FILE)
    pc,                       \* position of the script
    exit_status,              \* process exit status, NoExit while running
    stats,                    \* the counters of process_csv
    row_num,                  \* rows read from the reader so far
    chain_idx,                \* position of `for chain in EVM_CHAINS`
    asset_info,               \* local asset_info (return of get_asset_info)
    asset_id,                 \* local asset_id
    sleep_secs,               \* argument of the pending time.sleep
    response,                 \* HTTP outcome of the latest network call
    log,                      \* history: network calls and sleeps, in order
    rows,                     \* history: facts about every row read
    server_spam               \* remote service: the spam flag of each asset

vars == <<variant, DRY_RUN, EVM_CHAINS, BEARER_TOKEN_ASSET_INFO,
          BEARER_TOKEN_PRICING, csv_exists, pc, exit_status, stats, row_num,
          chain_idx, asset_info, asset_id, sleep_secs, response, log, rows,
          server_spam>>

config == <<variant, DRY_RUN, EVM_CHAINS, BEARER_TOKEN_ASSET_INFO,
            BEARER_TOKEN_PRICING, csv_exists>>

(***************************************************************************)
(* Bounds of the model.                                                    *)
(***************************************************************************)
MaxRows == 2       \* rows in the CSV file
MaxPairs == 3      \* (row, chain) pairs that pass validation
MaxFieldLen == 1   \* characters in a CSV field

NoExit == 0 - 1

(***************************************************************************)
(* Python values.                                                          *)
(***************************************************************************)
\* A CSV field as csv.DictReader yields it: a string (sequence of
\* characters) or None, the restval of a row shorter than the header.
NoneField == [none |-> TRUE, s |-> <<>>]
Str(s) == [none |-> FALSE, s |-> s]
Chars == {" ", "a"}
Strings(n) == UNION {[1..k -> Chars] : k \in 0..n}
FieldValues == {NoneField} \cup {Str(s) : s \in Strings(MaxFieldLen)}

RECURSIVE lstrip(_)
lstrip(s) == IF s = <<>> THEN s
             ELSE IF Head(s) = " " THEN lstrip(Tail(s)) ELSE s

RECURSIVE rstrip(_)
rstrip(s) == IF s = <<>> THEN s
             ELSE IF s[Len(s)] = " " THEN rstrip(SubSeq(s, 1, Len(s) - 1)) ELSE s

\* str.strip()
strip(s) == rstrip(lstrip(s))

\* A parsed JSON value, or None.  A dict is a set of <<key, value>> pairs with
\* string values; a list is known by its length only.
PyNone == [t |-> "none", d |-> {}, n |-> 0]
Dict(d) == [t |-> "dict", d |-> d, n |-> 0]
List(n) == [t |-> "list", d |-> {}, n |-> n]
NotJson == [t |-> "invalid", d |-> {}, n |-> 0]

\* Python truth value of a JSON value / None
Truthy(v) == CASE v.t = "dict" -> v.d # {}
               [] v.t = "list" -> v.n > 0
               [] OTHER -> FALSE

PyBool(b) == [t |-> "bool", d |-> {}, n |-> IF b THEN 1 ELSE 0]

\* d.get(k) and d.get(k, ''): the value of key k; a missing key gives None
\* or '', both falsy, written "" here.
HasKey(v, k) == \E p \in v.d : p[1] = k
Get(v, k) == IF HasKey(v, k) THEN (CHOOSE p \in v.d : p[1] = k)[2] ELSE ""

(***************************************************************************)
(* The environment: CSV rows and HTTP outcomes.                            *)
(***************************************************************************)
\* One record of csv.DictReader.  evm/solana read 'Product name', 'Token
\* Symbol' and the address column; price reads 'Name', 'BSC Deployed
\* Address' and 'CoinGecko API ID'.
CsvRows(v) ==
    IF v = "price"
    THEN [name : FieldValues, symbol : {Str(<<>>)}, address : FieldValues,
          coingecko_id : FieldValues]
    ELSE [name : FieldValues, symbol : {NoneField, Str(<<"a">>)},
          address : FieldValues, coingecko_id : {Str(<<>>)}]

\* An HTTP outcome: status 0 is a transport failure (no response at all).
Http(status, body) == [status |-> status, body |-> body]

NoResponse == Http(0, NotJson)

\* the ids the service knows assets by
AssetIds == {"A1", "A2"}

ResolveResponses ==
    {Http(0, NotJson), Http(404, NotJson), Http(500, NotJson),
     Http(200, Dict({<<"id", "A1">>, <<"name", "T">>})),
     Http(200, Dict({<<"id", "A2">>})),
     Http(200, Dict({<<"id", "">>, <<"name", "T">>})),
     Http(200, Dict({<<"name", "T">>})),
     Http(200, Dict({})),
     Http(200, List(1)),
     Http(200, NotJson)}

SpamResponses ==
    {Http(0, NotJson), Http(200, NotJson), Http(204, NotJson), Http(500, NotJson)}

PriceResponses ==
    {Http(0, NotJson), Http(500, NotJson),
     Http(200, Dict({<<"stdout", "out">>})),
     Http(200, Dict({<<"stdout", "">>, <<"stderr", "e">>})),
     Http(200, Dict({<<"stderr", "e">>})),
     Http(200, Dict({})),
     Http(200, List(1)),
     Http(200, NotJson)}

(***************************************************************************)
(* HTTP Asset Client.                                                      *)
(***************************************************************************)
\* A client call either returns a value or lets an exception escape.
Return(v) == [raised |-> FALSE, value |-> v]
Raise == [raised |-> TRUE, value |-> PyNone]

\* requests.post + raise_for_status + response.json() inside
\* `try ... except RequestException: return None`.  A body that is not JSON
\* raises requests' JSONDecodeError, a RequestException since requests 2.27
\* and a plain ValueError before: json_caught says which build runs.
get_asset_info(resp, json_caught) ==
    IF resp.status = 0 THEN Return(PyNone)
    ELSE IF resp.status >= 400 THEN Return(PyNone)
    ELSE IF resp.body.t = "invalid"
         THEN (IF json_caught THEN Return(PyNone) ELSE Raise)
    ELSE Return(resp.body)

\* run.py: the same shape around POST /pricing/update_price
update_asset_price(resp, json_caught) ==
    IF resp.status = 0 THEN Return(PyNone)
    ELSE IF resp.status >= 400 THEN Return(PyNone)
    ELSE IF resp.body.t = "invalid"
         THEN (IF json_caught THEN Return(PyNone) ELSE Raise)
    ELSE Return(resp.body)

\* mark_asset_not_spam taking every status that passed raise_for_status for
\* a success
mark_asset_not_spam_Any2xx(resp) ==
    IF resp.status = 0 THEN FALSE
    ELSE resp.status < 400

\* True only for a 200 that passed raise_for_status
mark_asset_not_spam(resp) ==
    IF resp.status = 0 THEN FALSE
    ELSE IF resp.status >= 400 THEN FALSE
    ELSE resp.status = 200

\* SpamData posting the flag the endpoint is named after
SpamData_True(id) == [asset_id |-> id, spam |-> "true"]

\* the form data mark_asset_not_spam posts
SpamData(id) == [asset_id |-> id, spam |-> "false"]

\* The assets_mark_as_spam endpoint of the remote service: a request it
\* answers with a 2xx status has set the flag of the asset to the value sent,
\* whatever the flag was; any other outcome has left the flags alone.
assets_mark_as_spam(flags, data, resp) ==
    IF resp.status >= 200 /\ resp.status < 300 /\ data.asset_id \in DOMAIN flags
    THEN [flags EXCEPT ![data.asset_id] = (data.spam = "true")]
    ELSE flags

(***************************************************************************)
(* Counters of process_csv.                                                *)
(***************************************************************************)
SOLANA_CHAIN == "solana_mainnet"
BSC_CHAIN == "evm_56"

Range(f) == {f[i] : i \in DOMAIN f}

\* The chains one row is resolved on
Chains == CASE variant = "evm" -> EVM_CHAINS
            [] variant = "solana" -> <<SOLANA_CHAIN>>
            [] OTHER -> <<BSC_CHAIN>>

InitStats(v, chains) ==
    CASE v = "evm" ->
           [total_rows |-> 0, skipped |-> 0, processed_chains |-> 0,
            failed_chains |-> 0,
            by_chain |-> [c \in Range(chains) |->
                            [success |-> 0, failed |-> 0, not_found |-> 0]]]
      [] v = "solana" ->
           [total_rows |-> 0, skipped |-> 0, success |-> 0, failed |-> 0,
            not_found |-> 0]
      [] OTHER -> [successful |-> 0, failed |-> 0, skipped |-> 0]

\* stats["total_rows"] += 1 (evm, solana); run.py keeps no such counter
CountRow(st, v) ==
    IF v = "price" THEN st ELSE [st EXCEPT !.total_rows = @ + 1]

\* CountSkipped placed after the row has been counted
CountSkipped_AfterCount(st, v) ==
    IF v = "price" THEN [st EXCEPT !.failed = @ + 1]
    ELSE [st EXCEPT !.total_rows = @ + 1]

\* the branch of a row that fails validation: `continue` (evm, solana),
\* `skipped += 1; continue` (price)
CountSkipped(st, v) ==
    IF v = "price" THEN [st EXCEPT !.skipped = @ + 1] ELSE st

\* CountNoAssetInfo counting a failure instead
CountNoAssetInfo_AsFailed(st, v, chain) ==
    CASE v = "evm" -> [st EXCEPT !.by_chain[chain].failed = @ + 1,
                                 !.failed_chains = @ + 1]
      [] OTHER -> [st EXCEPT !.failed = @ + 1]

\* the branch `if not asset_info`
CountNoAssetInfo(st, v, chain) ==
    CASE v = "evm" -> [st EXCEPT !.by_chain[chain].not_found = @ + 1]
      [] v = "solana" -> [st EXCEPT !.not_found = @ + 1]
      [] OTHER -> [st EXCEPT !.failed = @ + 1]

\* CountFailed updating the run-wide total of evm but not the chain's bucket
CountFailed_TotalOnly(st, v, chain) ==
    CASE v = "evm" -> [st EXCEPT !.failed_chains = @ + 1]
      [] OTHER -> [st EXCEPT !.failed = @ + 1]

\* the branches that count a failure
CountFailed(st, v, chain) ==
    CASE v = "evm" -> [st EXCEPT !.by_chain[chain].failed = @ + 1,
                                 !.failed_chains = @ + 1]
      [] v = "solana" -> [st EXCEPT !.failed = @ + 1]
      [] OTHER -> [st EXCEPT !.failed = @ + 1]

\* CountSuccess updating the chain's bucket of evm but not the run-wide total
CountSuccess_BucketOnly(st, v, chain) ==
    CASE v = "evm" -> [st EXCEPT !.by_chain[chain].success = @ + 1]
      [] v = "solana" -> [st EXCEPT !.success = @ + 1]
      [] OTHER -> [st EXCEPT !.successful = @ + 1]

\* the branches that count a success
CountSuccess(st, v, chain) ==
    CASE v = "evm" -> [st EXCEPT !.by_chain[chain].success = @ + 1,
                                 !.processed_chains = @ + 1]
      [] v = "solana" -> [st EXCEPT !.success = @ + 1]
      [] OTHER -> [st EXCEPT !.successful = @ + 1]

(***************************************************************************)
(* History kept for the properties: the calls and sleeps in order, and     *)
(* what each row read looked like.                                         *)
(***************************************************************************)
Raised == [t |-> "raised", d |-> {}, n |-> 0]

CallEntry(kind, id, dry, ret) ==
    [kind |-> kind, row |-> row_num, chain |-> Chains[chain_idx],
     asset_id |-> id, dry_run |-> dry, ret |-> ret, secs |-> 0]

SleepEntry(secs) ==
    [kind |-> "sleep", row |-> row_num, chain |-> "", asset_id |-> "",
     dry_run |-> FALSE, ret |-> PyNone, secs |-> secs]

\* a field that is missing or holds nothing but blanks
IsBlank(f) == f.none \/ \A i \in DOMAIN f.s : f.s[i] = " "

RowFacts(r) ==
    [name_blank |-> IsBlank(r.name), address_blank |-> IsBlank(r.address),
     coingecko_blank |-> IsBlank(r.coingecko_id)]

NumCalls(kind) == Cardinality({i \in DOMAIN log : log[i].kind = kind})

(***************************************************************************)
(* main()                                                                  *)
(***************************************************************************)
\* `if not TOKEN` (evm, solana); `if not TOKEN or TOKEN == "eyJ"` (price)
TokenRejected(v, token) ==
    IF v = "price" THEN token = "" \/ token = "eyJ" ELSE token = ""

\* the three sys.exit(1) checks of main
ConfigError(v, token_info, token_pricing, exists) ==
    \/ TokenRejected(v, token_info)
    \/ TokenRejected(v, token_pricing)
    \/ ~exists

Main ==
    /\ pc = "main"
    /\ IF ConfigError(variant, BEARER_TOKEN_ASSET_INFO, BEARER_TOKEN_PRICING,
                      csv_exists)
       THEN /\ pc' = "exit"
            /\ exit_status' = 1
            /\ UNCHANGED stats
       ELSE /\ pc' = "read"
            /\ stats' = InitStats(variant, Chains)
            /\ UNCHANGED exit_status
    /\ UNCHANGED <<config, server_spam, row_num, chain_idx, asset_info,
                   asset_id, sleep_secs, response, log, rows>>

(***************************************************************************)
(* process_csv()                                                           *)
(***************************************************************************)
\* row.get(col, '').strip() raises AttributeError on None
StripRaises(v, r) ==
    IF v = "price" THEN r.address.none \/ r.coingecko_id.none
    ELSE r.name.none \/ r.symbol.none \/ r.address.none

\* the locals of the row: evm/solana strip the name, price does not.  They are
\* read by the validation alone: past it the row's text only reaches the
\* request payload and the printed trace, so it is not carried in the state.
RowLocals(v, r) ==
    [name |-> IF v = "price" THEN r.name.s ELSE strip(r.name.s),
     address |-> strip(r.address.s),
     coingecko_id |-> strip(r.coingecko_id.s)]

\* SkipRow with the second field of the check forgotten
SkipRow_AddressOnly(v, loc) == Len(loc.address) = 0

\* `if not address or not product_name` (evm, solana);
\* `if not bsc_address or not coingecko_id` (price)
SkipRow(v, loc) ==
    IF v = "price" THEN Len(loc.address) = 0 \/ Len(loc.coingecko_id) = 0
    ELSE Len(loc.address) = 0 \/ Len(loc.name) = 0

Crash ==
    /\ pc' = "crashed"
    /\ exit_status' = 1

\* one iteration of `for row_num, row in enumerate(reader)` up to the first
\* network call
ReadRow(r) ==
    /\ pc = "read"
    /\ row_num < MaxRows
    /\ row_num' = row_num + 1
    /\ rows' = Append(rows, RowFacts(r))
    /\ IF StripRaises(variant, r)
       THEN /\ Crash
            /\ UNCHANGED <<stats, chain_idx>>
       ELSE LET loc == RowLocals(variant, r) IN
            /\ UNCHANGED exit_status
            /\ IF SkipRow(variant, loc)
               THEN /\ stats' = CountSkipped(stats, variant)
                    /\ pc' = "read"
                    /\ UNCHANGED chain_idx
               ELSE /\ NumCalls("resolve") + Len(Chains) <= MaxPairs
                    /\ stats' = CountRow(stats, variant)
                    /\ pc' = "resolve"
                    /\ chain_idx' = 1
    /\ UNCHANGED <<config, server_spam, asset_info, asset_id, sleep_secs,
                   response, log>>

\* the reader is exhausted: the summary is printed and main returns
EndOfFile ==
    /\ pc = "read"
    /\ pc' = "done"
    /\ exit_status' = 0
    /\ UNCHANGED <<config, server_spam, stats, row_num, chain_idx, asset_info,
                   asset_id, sleep_secs, response, log, rows>>

\* asset_info = get_asset_info(...)
GetAssetInfo(resp, json_caught) ==
    /\ pc = "resolve"
    /\ response' = resp
    /\ LET r == get_asset_info(resp, json_caught) IN
       IF r.raised
       THEN /\ Crash
            /\ log' = Append(log, CallEntry("resolve", "", FALSE, Raised))
            /\ UNCHANGED asset_info
       ELSE /\ pc' = "classify"
            /\ asset_info' = r.value
            /\ log' = Append(log, CallEntry("resolve", "", FALSE, r.value))
            /\ UNCHANGED exit_status
    /\ UNCHANGED <<config, server_spam, stats, row_num, chain_idx, asset_id,
                   sleep_secs, rows>>

\* AfterContinue trying the same pair again
AfterContinue_Retry ==
    /\ pc' = "resolve"
    /\ UNCHANGED <<chain_idx, sleep_secs>>

\* where `continue` leads: the next chain, or the pause after the row (evm);
\* the next row (solana after its own sleep, price at once)
AfterContinue ==
    CASE variant = "evm" ->
           IF chain_idx < Len(Chains)
           THEN /\ chain_idx' = chain_idx + 1
                /\ pc' = "resolve"
                /\ UNCHANGED sleep_secs
           ELSE /\ pc' = "sleep_row"
                /\ sleep_secs' = 0
                /\ UNCHANGED chain_idx
      [] variant = "solana" ->
           /\ pc' = "sleep_row"
           /\ sleep_secs' = 2
           /\ UNCHANGED chain_idx
      [] OTHER ->
           /\ pc' = "read"
           /\ UNCHANGED <<chain_idx, sleep_secs>>

\* AfterPair with the pause of the `continue` branches of solana
AfterPair_ShortPause ==
    CASE variant = "evm" ->
           /\ pc' = "sleep_chain"
           /\ sleep_secs' = 1
      [] variant = "solana" ->
           /\ pc' = "sleep_row"
           /\ sleep_secs' = 2
      [] OTHER ->
           /\ pc' = "sleep_row"
           /\ sleep_secs' = 5

\* the pause that ends a pair that went through the mutation step
AfterPair ==
    CASE variant = "evm" ->
           /\ pc' = "sleep_chain"
           /\ sleep_secs' = 1
      [] variant = "solana" ->
           /\ pc' = "sleep_row"
           /\ sleep_secs' = 3
      [] OTHER ->
           /\ pc' = "sleep_row"
           /\ sleep_secs' = 5

\* ResolveBranch with the `if not asset_id` test forgotten
ResolveBranch_NoIdCheck(v, dry, info) ==
    IF ~Truthy(info) THEN "not_found"
    ELSE IF info.t # "dict" THEN "raise"
    ELSE IF dry /\ v # "price" THEN "dry"
    ELSE "mutate"

\* ResolveBranch with the dry-run test forgotten
ResolveBranch_IgnoresDryRun(v, dry, info) ==
    IF ~Truthy(info) THEN "not_found"
    ELSE IF info.t # "dict" THEN "raise"
    ELSE IF Get(info, "id") = "" THEN "no_id"
    ELSE "mutate"

\* what process_csv does with asset_info: "not_found" for `if not
\* asset_info`, "raise" for .get on a value that is no dict, "no_id" for
\* `if not asset_id`, "dry" for the dry-run branch of evm/solana, else "mutate"
ResolveBranch(v, dry, info) ==
    IF ~Truthy(info) THEN "not_found"
    ELSE IF info.t # "dict" THEN "raise"
    ELSE IF Get(info, "id") = "" THEN "no_id"
    ELSE IF dry /\ v # "price" THEN "dry"
    ELSE "mutate"

\* from the return of get_asset_info to the mutation call or the end of the pair
Classify ==
    /\ pc = "classify"
    /\ LET b == ResolveBranch(variant, DRY_RUN, asset_info)
           chain == Chains[chain_idx] IN
       CASE b = "not_found" ->
              /\ stats' = CountNoAssetInfo(stats, variant, chain)
              /\ AfterContinue
              /\ UNCHANGED <<asset_id, exit_status>>
         [] b = "raise" ->
              /\ Crash
              /\ UNCHANGED <<stats, asset_id, chain_idx, sleep_secs>>
         [] b = "no_id" ->
              /\ asset_id' = Get(asset_info, "id")
              /\ stats' = CountFailed(stats, variant, chain)
              /\ AfterContinue
              /\ UNCHANGED exit_status
         [] b = "dry" ->
              /\ asset_id' = Get(asset_info, "id")
              /\ stats' = CountSuccess(stats, variant, chain)
              /\ AfterPair
              /\ UNCHANGED <<chain_idx, exit_status>>
         [] OTHER ->
              /\ asset_id' = Get(asset_info, "id")
              /\ pc' = "mutate"
              /\ UNCHANGED <<stats, chain_idx, sleep_secs, exit_status>>
    /\ UNCHANGED <<config, server_spam, row_num, asset_info, response, log, rows>>

\* success = mark_asset_not_spam(...) and its two branches (evm, solana)
MarkNotSpam(resp) ==
    /\ pc = "mutate"
    /\ variant # "price"
    /\ LET success == mark_asset_not_spam(resp) IN
       /\ log' = Append(log, CallEntry("mutate", asset_id, FALSE, PyBool(success)))
       /\ stats' = IF success
                   THEN CountSuccess(stats, variant, Chains[chain_idx])
                   ELSE CountFailed(stats, variant, Chains[chain_idx])
    /\ response' = resp
    /\ server_spam' = assets_mark_as_spam(server_spam, SpamData(asset_id), resp)
    /\ AfterPair
    /\ UNCHANGED <<config, exit_status, row_num, chain_idx, asset_info,
                   asset_id, rows>>

\* PriceBranch taking a body without stdout for a success
PriceBranch_WarningIsSuccess(ret) ==
    IF ~Truthy(ret) THEN "failed"
    ELSE IF ret.t # "dict" THEN "raise"
    ELSE "success"

\* what run.py does with price_response
PriceBranch(ret) ==
    IF ~Truthy(ret) THEN "failed"
    ELSE IF ret.t # "dict" THEN "raise"
    ELSE IF Get(ret, "stdout") # "" THEN "success"
    ELSE "no_stdout"

\* price_response = update_asset_price(...) and what follows it (price)
UpdatePrice(resp, json_caught) ==
    /\ pc = "mutate"
    /\ variant = "price"
    /\ LET r == update_asset_price(resp, json_caught)
           b == IF r.raised THEN "raise" ELSE PriceBranch(r.value) IN
       /\ log' = Append(log, CallEntry("mutate", asset_id, DRY_RUN,
                                       IF r.raised THEN Raised ELSE r.value))
       /\ CASE b = "raise" ->
                 /\ Crash
                 /\ UNCHANGED <<stats, chain_idx, sleep_secs>>
            [] b = "failed" ->
                 /\ stats' = CountFailed(stats, variant, Chains[chain_idx])
                 /\ AfterContinue
                 /\ UNCHANGED exit_status
            [] b = "success" ->
                 /\ stats' = CountSuccess(stats, variant, Chains[chain_idx])
                 /\ AfterPair
                 /\ UNCHANGED <<chain_idx, exit_status>>
            [] OTHER ->
                 /\ stats' = CountFailed(stats, variant, Chains[chain_idx])
                 /\ AfterPair
                 /\ UNCHANGED <<chain_idx, exit_status>>
    /\ response' = resp
    /\ UNCHANGED <<config, server_spam, row_num, asset_info, asset_id, rows>>

\* time.sleep(1) at the end of the chain loop body (evm)
SleepChain ==
    /\ pc = "sleep_chain"
    /\ log' = Append(log, SleepEntry(sleep_secs))
    /\ IF chain_idx < Len(Chains)
       THEN /\ chain_idx' = chain_idx + 1
            /\ pc' = "resolve"
            /\ UNCHANGED sleep_secs
       ELSE /\ pc' = "sleep_row"
            /\ sleep_secs' = 0
            /\ UNCHANGED chain_idx
    /\ UNCHANGED <<config, server_spam, exit_status, stats, row_num,
                   asset_info, asset_id, response, rows>>

\* the time.sleep that ends a row
SleepRow ==
    /\ pc = "sleep_row"
    /\ log' = Append(log, SleepEntry(sleep_secs))
    /\ pc' = "read"
    /\ UNCHANGED <<config, server_spam, exit_status, stats, row_num,
                   chain_idx, asset_info, asset_id, sleep_secs, response, rows>>

(***************************************************************************)
(* Specification.                                                          *)
(***************************************************************************)
Variants == {"evm", "solana", "price"}
ChainConfigs == {<<"evm_56">>, <<"evm_1", "evm_42161", "evm_56">>}
TokenValues == {"", "eyJ", "tok"}

InitRun ==
    /\ variant \in Variants
    /\ DRY_RUN \in BOOLEAN
    /\ EVM_CHAINS \in (IF variant = "evm" THEN ChainConfigs ELSE {<<"evm_56">>})
    /\ pc = "main"
    /\ exit_status = NoExit
    /\ stats = InitStats(variant, Chains)
    /\ row_num = 0
    /\ chain_idx = 1
    /\ asset_info = PyNone
    /\ asset_id = ""
    /\ sleep_secs = 0
    /\ response = NoResponse
    /\ log = <<>>
    /\ rows = <<>>
    /\ server_spam = [a \in AssetIds |-> TRUE]

\* a run whose configuration is complete
Init ==
    /\ InitRun
    /\ BEARER_TOKEN_ASSET_INFO = "tok"
    /\ BEARER_TOKEN_PRICING = "tok"
    /\ csv_exists = TRUE

Next ==
    \/ Main
    \/ \E r \in CsvRows(variant) : ReadRow(r)
    \/ EndOfFile
    \/ \E resp \in ResolveResponses, c \in BOOLEAN : GetAssetInfo(resp, c)
    \/ Classify
    \/ \E resp \in SpamResponses : MarkNotSpam(resp)
    \/ \E resp \in PriceResponses, c \in BOOLEAN : UpdatePrice(resp, c)
    \/ SleepChain
    \/ SleepRow

Spec == Init /\ [][Next]_vars

\* every run, whatever the environment holds
InitMain ==
    /\ InitRun
    /\ BEARER_TOKEN_ASSET_INFO \in TokenValues
    /\ BEARER_TOKEN_PRICING \in TokenValues
    /\ csv_exists \in BOOLEAN

SpecMain == InitMain /\ [][Next]_vars

(***************************************************************************)
(* Views of the state used by the properties.                              *)
(***************************************************************************)
IsCall(e) == e.kind = "resolve" \/ e.kind = "mutate"

CallsOfRow(i) == {k \in DOMAIN log : IsCall(log[k]) /\ log[k].row = i}

MutateCalls == {k \in DOMAIN log : log[k].kind = "mutate"}

ResolveCalls == {k \in DOMAIN log : log[k].kind = "resolve"}

\* the row lacks a field its script requires
Rejected(i) ==
    IF variant = "price"
    THEN rows[i].address_blank \/ rows[i].coingecko_blank
    ELSE rows[i].address_blank \/ rows[i].name_blank

RejectedRows == {i \in DOMAIN rows : Rejected(i)}

SuccessOf(st, c) ==
    CASE variant = "evm" -> st.by_chain[c].success
      [] variant = "solana" -> st.success
      [] OTHER -> st.successful

FailedOf(st, c) ==
    CASE variant = "evm" -> st.by_chain[c].failed
      [] OTHER -> st.failed

NotFoundOf(st, c) ==
    CASE variant = "evm" -> st.by_chain[c].not_found
      [] variant = "solana" -> st.not_found
      [] OTHER -> 0

SpamVariant == variant = "evm" \/ variant = "solana"

\* the pair in hand is left for the next one without a mutation call
PairLeftWithoutMutation ==
    /\ log' = log
    /\ pc' \in {"resolve", "sleep_row", "read"}
    /\ pc' = "resolve" => chain_idx' = chain_idx + 1

\* a resolve return that carries a non-empty id
HasId(ret) == ret.t = "dict" /\ Get(ret, "id") # ""

\* every mutation call follows, as the next call, a resolve call of the same
\* (row, chain) that returned an id
MutationOnlyAfterId ==
    \A k \in MutateCalls :
        /\ k > 1
        /\ log[k - 1].kind = "resolve"
        /\ log[k - 1].row = log[k].row
        /\ log[k - 1].chain = log[k].chain
        /\ HasId(log[k - 1].ret)

(***************************************************************************)
(* C1  No network call for a row that lacks a required field.              *)
(***************************************************************************)
\* C1 as stated: in all three scripts, a row whose address or display name
\* is empty after trimming gets no network call.
C1_NoCallForBlankNameOrAddress ==
    \A i \in DOMAIN rows :
        (rows[i].address_blank \/ rows[i].name_blank) => CallsOfRow(i) = {}

\* C1 amended: evm and solana require the address and the product name, the
\* price script requires the address and the CoinGecko id (its Name column is
\* only printed); a row lacking a required field gets no network call.
C1_NoCallForRejectedRow ==
    \A i \in DOMAIN rows : Rejected(i) => CallsOfRow(i) = {}

\* a rejected row was read after a row that was resolved
C1_Witness ==
    /\ pc = "read"
    /\ row_num = 2
    /\ Rejected(2)
    /\ CallsOfRow(1) # {}

(***************************************************************************)
(* C2  Rejected rows are counted as skipped.                               *)
(***************************************************************************)
\* C2: at the end of the run the skipped counter equals the number of rows
\* that failed validation (once per configured chain in the evm script).
C2_SkippedCountsRejectedRows ==
    pc = "done" =>
        stats.skipped = Cardinality(RejectedRows)
                          * (IF variant = "evm" THEN Len(Chains) ELSE 1)

(***************************************************************************)
(* C3  Not found: no mutation, not_found + 1.                              *)
(***************************************************************************)
\* C3: in the evm and solana scripts a resolve call answered with HTTP 404
\* yields None, adds exactly one to the not_found counter of that chain and
\* nothing to any other counter, and the pair is left without a mutation call;
\* no mutation call is ever issued but right after a resolve call of the same
\* pair that returned an id.
C3_NotFoundCountedOnce ==
    /\ [](SpamVariant => MutationOnlyAfterId)
    /\ [][(pc = "classify" /\ SpamVariant /\ response.status = 404) =>
            /\ asset_info = PyNone
            /\ stats' = IF variant = "evm"
                        THEN [stats EXCEPT
                                !.by_chain[Chains[chain_idx]].not_found = @ + 1]
                        ELSE [stats EXCEPT !.not_found = @ + 1]
            /\ PairLeftWithoutMutation]_vars

\* a 404 has been counted on a chain of the evm script that has three chains
C3_Witness ==
    /\ variant = "evm"
    /\ Len(Chains) = 3
    /\ pc = "resolve"
    /\ chain_idx = 2
    /\ response.status = 404
    /\ stats.by_chain[Chains[1]].not_found = 1

(***************************************************************************)
(* C4  Other resolve errors are Failed, not NotFound.                      *)
(***************************************************************************)
\* C4: in the evm and solana scripts a resolve call that fails otherwise than
\* with 404 (another error status, a transport failure) is counted as failed,
\* not as not_found, and the pair gets no mutation call.
C4_OtherErrorsAreFailed ==
    [][(pc = "classify" /\ SpamVariant /\ response.status \in {0, 500}) =>
         LET c == Chains[chain_idx] IN
         /\ FailedOf(stats', c) = FailedOf(stats, c) + 1
         /\ NotFoundOf(stats', c) = NotFoundOf(stats, c)
         /\ PairLeftWithoutMutation]_vars

(***************************************************************************)
(* C5  A 2xx body without id is Failed.                                    *)
(***************************************************************************)
\* C5: in every script a 2xx resolve response whose JSON object has no id, or
\* an empty one, the empty object included, is counted as failed (not as
\* not_found, not as success), and the pair gets no mutation call.
C5_MissingIdIsFailed ==
    [][(/\ pc = "classify"
        /\ response.status = 200
        /\ response.body.t = "dict"
        /\ Get(response.body, "id") = "") =>
         LET c == Chains[chain_idx] IN
         /\ FailedOf(stats', c) = FailedOf(stats, c) + 1
         /\ NotFoundOf(stats', c) = NotFoundOf(stats, c)
         /\ SuccessOf(stats', c) = SuccessOf(stats, c)
         /\ PairLeftWithoutMutation]_vars

(***************************************************************************)
(* C6  Dry run and the mutation endpoint.                                  *)
(***************************************************************************)
\* C6 as stated: in a dry run no call to the mutation endpoint is ever issued.
C6_DryRunNoMutationCall == DRY_RUN => MutateCalls = {}

\* C6 amended: in a dry run the evm and solana scripts issue no call to
\* assets_mark_as_spam; the price script does call update_price, and every
\* such call carries dry_run = "true".
C6_DryRunNoLiveMutation ==
    DRY_RUN => \A k \in MutateCalls : variant = "price" /\ log[k].dry_run

\* a dry run of a spam script that resolved an id has ended
C6_Witness ==
    /\ DRY_RUN
    /\ SpamVariant
    /\ pc = "done"
    /\ \E k \in ResolveCalls : HasId(log[k].ret)

(***************************************************************************)
(* C7  A dry run counts like a live run whose mutations all succeed.       *)
(***************************************************************************)
ResolvedWithId(c) ==
    {k \in ResolveCalls : log[k].chain = c /\ HasId(log[k].ret)}

ResolvedNoId(c) ==
    {k \in ResolveCalls :
        log[k].chain = c /\ Truthy(log[k].ret) /\ ~HasId(log[k].ret)}

ResolvedFalsy(c) ==
    {k \in ResolveCalls : log[k].chain = c /\ ~Truthy(log[k].ret)}

MutationSucceeded(ret) ==
    IF variant = "price"
    THEN ret.t = "dict" /\ Get(ret, "stdout") # ""
    ELSE ret = PyBool(TRUE)

AllMutationsSucceeded == \A k \in MutateCalls : MutationSucceeded(log[k].ret)

\* The counters a live run in which every mutation call succeeds ends with,
\* as a function of the rows read and of what the resolve calls returned.
LiveAllSuccessStats ==
    CASE variant = "evm" ->
           [total_rows |-> Cardinality(DOMAIN rows \ RejectedRows),
            skipped |-> 0,
            processed_chains |->
                Cardinality({k \in ResolveCalls : HasId(log[k].ret)}),
            failed_chains |->
                Cardinality({k \in ResolveCalls :
                                Truthy(log[k].ret) /\ ~HasId(log[k].ret)}),
            by_chain |-> [c \in Range(Chains) |->
                            [success |-> Cardinality(ResolvedWithId(c)),
                             failed |-> Cardinality(ResolvedNoId(c)),
                             not_found |-> Cardinality(ResolvedFalsy(c))]]]
      [] variant = "solana" ->
           [total_rows |-> Cardinality(DOMAIN rows \ RejectedRows),
            skipped |-> 0,
            success |-> Cardinality(ResolvedWithId(SOLANA_CHAIN)),
            failed |-> Cardinality(ResolvedNoId(SOLANA_CHAIN)),
            not_found |-> Cardinality(ResolvedFalsy(SOLANA_CHAIN))]
      [] OTHER ->
           [successful |-> Cardinality(ResolvedWithId(BSC_CHAIN)),
            failed |-> Cardinality(ResolvedNoId(BSC_CHAIN))
                         + Cardinality(ResolvedFalsy(BSC_CHAIN)),
            skipped |-> Cardinality(RejectedRows)]

\* The counters of the price script as a function of the rows read and of
\* what the resolve and update_price calls returned, DRY_RUN not among them.
PriceStatsFromResponses ==
    [successful |->
        Cardinality({k \in MutateCalls : MutationSucceeded(log[k].ret)}),
     failed |-> Cardinality(ResolvedNoId(BSC_CHAIN))
                  + Cardinality(ResolvedFalsy(BSC_CHAIN))
                  + Cardinality({k \in MutateCalls :
                                    ~MutationSucceeded(log[k].ret)}),
     skipped |-> Cardinality(RejectedRows)]

\* C7 as stated: in every script a dry run ends with the counters of a live
\* run over the same rows and resolve responses whose mutations all succeed.
C7_DryRunCountsLikeLive ==
    (pc = "done" /\ (DRY_RUN \/ AllMutationsSucceeded)) =>
        stats = LiveAllSuccessStats

\* C7 amended: that holds of the evm and solana scripts; in the price script
\* the dry run issues the update_price calls too and ends with the counters
\* of a live run that received the same resolve and update_price responses.
C7_DryRunCountsLikeLiveAmended ==
    pc = "done" =>
        IF SpamVariant
        THEN (DRY_RUN \/ AllMutationsSucceeded) => stats = LiveAllSuccessStats
        ELSE stats = PriceStatsFromResponses

\* a dry run of the evm script ended with a success and a not_found
C7_Witness ==
    /\ pc = "done"
    /\ DRY_RUN
    /\ variant = "evm"
    /\ stats.processed_chains >= 1
    /\ \E c \in Range(Chains) : stats.by_chain[c].not_found >= 1

C9_NoFailureAbortsRun == pc # "crashed"

(***************************************************************************)
(* C10  Exit status.                                                       *)
(***************************************************************************)
\* the configuration main refuses
ConfigRefused ==
    \/ BEARER_TOKEN_ASSET_INFO = ""
    \/ BEARER_TOKEN_PRICING = ""
    \/ variant = "price" /\ "eyJ" \in {BEARER_TOKEN_ASSET_INFO, BEARER_TOKEN_PRICING}
    \/ ~csv_exists

\* C10: a run whose configuration main refuses ends with a non-zero status
\* before any row is read or any call is issued; every other run ends with
\* status 0, however many rows failed.
C10_ExitStatus ==
    exit_status # NoExit =>
        IF ConfigRefused
        THEN exit_status = 1 /\ row_num = 0 /\ log = <<>>
        ELSE exit_status = 0

(***************************************************************************)
(* C11  A 200 from update_price without stdout.                            *)
(***************************************************************************)
\* the update_price call being answered is a 200 whose JSON object carries
\* no stdout, or an empty one
UpdateAnsweredWithoutStdout ==
    /\ pc = "mutate"
    /\ variant = "price"
    /\ response'.status = 200
    /\ response'.body.t = "dict"
    /\ Get(response'.body, "stdout") = ""

\* C11 as stated: in the price script an update_price call answered 200
\* with a body that lacks a non-empty stdout is recorded like one that
\* carries it: successful + 1, nothing added to failed.
C11_NoStdoutCountsLikeSuccess ==
    [][UpdateAnsweredWithoutStdout =>
         /\ stats'.successful = stats.successful + 1
         /\ stats'.failed = stats.failed]_vars

\* C11 amended: such a call is counted as a failure: failed + 1, successful
\* and skipped unchanged.
C11_NoStdoutCountsAsFailed ==
    [][UpdateAnsweredWithoutStdout =>
         /\ stats'.failed = stats.failed + 1
         /\ stats'.successful = stats.successful
         /\ stats'.skipped = stats.skipped]_vars

\* a 200 carrying stderr but no stdout has been counted
C11_Witness ==
    /\ variant = "price"
    /\ pc = "sleep_row"
    /\ response = Http(200, Dict({<<"stderr", "e">>}))
    /\ stats.failed = 1
    /\ stats.successful = 0

(***************************************************************************)
(* C12  Live spam clearing: Success iff the mutation returned 200.         *)
(***************************************************************************)
\* C12: in the evm and solana scripts a pair that reaches the mutation call
\* is counted as success, and in no other counter, when the call is answered
\* with HTTP 200, and as failed, and in no other counter, for every other
\* outcome (error status, transport failure, another 2xx status).
C12_SuccessIffStatus200 ==
    [][(pc = "mutate" /\ SpamVariant) =>
         LET c == Chains[chain_idx] IN
         /\ NotFoundOf(stats', c) = NotFoundOf(stats, c)
         /\ stats'.total_rows = stats.total_rows
         /\ IF response'.status = 200
            THEN /\ SuccessOf(stats', c) = SuccessOf(stats, c) + 1
                 /\ FailedOf(stats', c) = FailedOf(stats, c)
            ELSE /\ SuccessOf(stats', c) = SuccessOf(stats, c)
                 /\ FailedOf(stats', c) = FailedOf(stats, c) + 1]_vars

\* a 204 has been counted as a failure, after a 200 counted as a success
C12_Witness ==
    /\ variant = "solana"
    /\ pc = "sleep_row"
    /\ response.status = 204
    /\ stats.failed = 1
    /\ stats.success = 1

(***************************************************************************)
(* C13  The spam mutation is idempotent.                                   *)
(***************************************************************************)
\* an earlier mark_asset_not_spam call for the asset in hand returned True
MarkedBefore ==
    \E k \in MutateCalls :
        log[k].asset_id = asset_id /\ log[k].ret = PyBool(TRUE)

\* C13: against a service that answers spam=false with HTTP 200 whatever the
\* flag was, a second mark_asset_not_spam call for an asset an earlier call
\* has marked (the same asset met again in the batch) is counted as a
\* success too and leaves the flags of the service as the first call left
\* them, the asset not spam.
C13_SpamMutationIdempotent ==
    [][(/\ pc = "mutate"
        /\ SpamVariant
        /\ MarkedBefore
        /\ response'.status = 200) =>
         LET c == Chains[chain_idx] IN
         /\ log'[Len(log')].ret = PyBool(TRUE)
         /\ SuccessOf(stats', c) = SuccessOf(stats, c) + 1
         /\ FailedOf(stats', c) = FailedOf(stats, c)
         /\ ~server_spam[asset_id]
         /\ server_spam' = server_spam]_vars

\* the same asset has been marked twice, both calls returning True
C13_Witness ==
    /\ SpamVariant
    /\ pc = "done"
    /\ \E j, k \in MutateCalls :
          /\ j < k
          /\ log[j].asset_id = log[k].asset_id
          /\ log[j].ret = PyBool(TRUE)
          /\ log[k].ret = PyBool(TRUE)
          /\ ~server_spam[log[k].asset_id]

(***************************************************************************)
(* C14  Single attempt, no retry.                                          *)
(***************************************************************************)
\* C14: in every script, at most one resolve call and at most one mutation
\* call is issued per (row, chain) pair, whatever the calls returned.
C14_SingleAttempt ==
    \A j, k \in DOMAIN log :
        (/\ j < k
         /\ IsCall(log[j])
         /\ log[j].kind = log[k].kind
         /\ log[j].row = log[k].row) => log[j].chain # log[k].chain

\* a run has ended in which a resolve call and a mutation call failed
C14_Witness ==
    /\ pc = "done"
    /\ \E k \in ResolveCalls : ~Truthy(log[k].ret)
    /\ \E k \in MutateCalls : ~MutationSucceeded(log[k].ret)

(***************************************************************************)
(* C15  A row with an empty address and the counters.                      *)
(***************************************************************************)
\* the step reads a row whose address column holds nothing
ReadsRowWithoutAddress ==
    /\ Len(rows') = Len(rows) + 1
    /\ rows'[Len(rows')].address_blank

\* C15 as stated: in every script, processing a row whose address is empty
\* leaves every counter unchanged.
C15_EmptyAddressChangesNoCounter ==
    [][ReadsRowWithoutAddress => stats' = stats]_vars

\* C15 amended: the evm and solana scripts leave every counter unchanged;
\* the price script adds one to skipped and leaves successful and failed
\* unchanged, unless reading the row raises, and then no counter changes.
C15_EmptyAddressCountsSkippedInPrice ==
    [][ReadsRowWithoutAddress =>
         IF variant = "price" /\ pc' # "crashed"
         THEN stats' = [stats EXCEPT !.skipped = @ + 1]
         ELSE stats' = stats]_vars

\* a row without address was read after a row that was counted
C15_Witness ==
    /\ pc = "read"
    /\ row_num = 2
    /\ rows[2].address_blank
    /\ ~rows[1].address_blank
    /\ IF variant = "price"
       THEN stats.skipped = 1 /\ stats.successful = 1
       ELSE stats.total_rows = 1

(***************************************************************************)
(* C16  Price script: 5 seconds between rows.                              *)
(***************************************************************************)
SleepsOfRow(i) == {k \in DOMAIN log : log[k].kind = "sleep" /\ log[k].row = i}

\* C16: in the price script a pause of 5 seconds lies between every two
\* consecutive rows, whatever the outcome of the earlier one: once a row has
\* been read, every row before it has been followed by a time.sleep(5).
C16_FiveSecondsBetweenRows ==
    variant = "price" =>
        \A i \in 1..(row_num - 1) : \E k \in SleepsOfRow(i) : log[k].secs = 5

(***************************************************************************)
(* C17  Solana script: the pause after a row.                              *)
(***************************************************************************)
\* the call entry that ends a pair counted as success: a mutation that
\* returned True, or in a dry run a resolve that returned an id
EndsInSuccess(e) ==
    \/ e.kind = "mutate" /\ e.ret = PyBool(TRUE)
    \/ e.kind = "resolve" /\ HasId(e.ret)

\* the call entry that ends a pair which went as far as the mutation step
EndsAtMutationStep(e) ==
    \/ e.kind = "mutate"
    \/ e.kind = "resolve" /\ HasId(e.ret)

\* every validated row that has been left was followed by one pause
OnePausePerValidatedRow ==
    pc \in {"read", "done"} =>
        \A i \in DOMAIN rows \ RejectedRows : Cardinality(SleepsOfRow(i)) = 1

\* C17 as stated: in the solana script the pause after a validated row is 3
\* seconds when the row was counted as success and 2 seconds when it was
\* counted as not_found or failed, a failed mutation call included.
C17_PauseByOutcome ==
    variant = "solana" =>
        /\ OnePausePerValidatedRow
        /\ \A k \in DOMAIN log :
              log[k].kind = "sleep" =>
                  /\ k > 1
                  /\ log[k - 1].row = log[k].row
                  /\ log[k].secs = IF EndsInSuccess(log[k - 1]) THEN 3 ELSE 2

\* C17 amended: the pause is 2 seconds after a row that ended at the resolve
\* step (not_found, or failed for a missing id) and 3 seconds after every
\* row that reached the mutation step: success, live or dry, and also a
\* row counted as failed because its mutation call failed.
C17_PauseByStepReached ==
    variant = "solana" =>
        /\ OnePausePerValidatedRow
        /\ \A k \in DOMAIN log :
              log[k].kind = "sleep" =>
                  /\ k > 1
                  /\ log[k - 1].row = log[k].row
                  /\ log[k].secs =
                        IF EndsAtMutationStep(log[k - 1]) THEN 3 ELSE 2

\* a row whose mutation failed was followed by 3 seconds, a row not found by 2
C17_Witness ==
    /\ variant = "solana"
    /\ pc = "done"
    /\ \E k \in DOMAIN log :
          /\ log[k].kind = "mutate"
          /\ log[k].ret = PyBool(FALSE)
          /\ log[k + 1].secs = 3
    /\ \E k \in ResolveCalls :
          /\ ~Truthy(log[k].ret)
          /\ log[k + 1].secs = 2

(***************************************************************************)
(* C18  EVM script: a pause between the calls of consecutive pairs.        *)
(***************************************************************************)
\* C18: in the evm script a pause step lies between the network calls of any
\* two consecutive (row, chain) pairs, whatever the outcome of the earlier
\* pair: every resolve call but the first comes right after a time.sleep.
C18_PauseBetweenPairs ==
    variant = "evm" =>
        \A k \in ResolveCalls : k > 1 => log[k - 1].kind = "sleep"

(***************************************************************************)
(* C19  The mutation call carries the id its own resolve call returned.    *)
(***************************************************************************)
\* C19: in every script a mutation call is issued only right after the
\* resolve call of the same (row, chain) has returned an object with a
\* non-empty id, and the asset_id it sends is that id, never the id of
\* another row or chain.
C19_MutationUsesResolvedId ==
    /\ MutationOnlyAfterId
    /\ \A k \in MutateCalls : log[k].asset_id = Get(log[k - 1].ret, "id")

\* two mutation calls were issued, for two different ids
C19_Witness ==
    /\ pc = "done"
    /\ \E j, k \in MutateCalls :
          /\ j < k
          /\ log[j].asset_id = "A1"
          /\ log[k].asset_id = "A2"

(***************************************************************************)
(* C20  EVM script: the run-wide totals are the sums of the buckets.       *)
(***************************************************************************)
\* the sum of one counter over the buckets of the first n chains
RECURSIVE BucketSum(_, _, _)
BucketSum(st, counter, n) ==
    IF n = 0 THEN 0
    ELSE st.by_chain[Chains[n]][counter] + BucketSum(st, counter, n - 1)

\* C20: in the evm script, at every (row, chain) boundary processed_chains
\* is the sum over the chains of by_chain[chain].success and failed_chains
\* is the sum over the chains of by_chain[chain].failed.
C20_TotalsAreBucketSums ==
    variant = "evm" =>
        /\ stats.processed_chains = BucketSum(stats, "success", Len(Chains))
        /\ stats.failed_chains = BucketSum(stats, "failed", Len(Chains))

\* a three-chain row ended with two chains marked and one failed
C20_Witness ==
    /\ variant = "evm"
    /\ Len(Chains) = 3
    /\ pc = "done"
    /\ stats.processed_chains = 2
    /\ stats.failed_chains = 1
    /\ stats.by_chain[Chains[2]].failed = 1

====
